---- MODULE Spec2Model ----
(***************************************************************************)
(* Invoice rendering and export: the paginator, the tax aggregator and the *)
(* page composer of Template2Modern (two variants of the template), and    *)
(* the vector-draw exporter of InvoiceViewer (jsPDF + autoTable).          *)
(*                                                                         *)
(* Numbers.  A JavaScript number that carries a quantity, a price or an    *)
(* amount is an integer count of 1/NumScale units (fixed point); the       *)
(* inputs are chosen so that every product and quotient the code computes  *)
(* is exact at that scale.  A tax rate is a whole percentage.  A string    *)
(* produced by toFixed(2) is the integer number of hundredths it prints.   *)
(* An optional field is <<>> when absent and <<v>> when present.           *)
(***************************************************************************)
EXTENDS Integers, Sequences, FiniteSets, TLC

VARIABLES
    invoice,            \* the document handed to the viewer (props.invoice / props.data)
    includeSignature,   \* InvoiceViewer state: the signature checkbox
    modern,             \* Template2Modern.tsx: <<>> until rendered, then <<its render>>
    variant,            \* the second Template2Modern variant: same shape
    pdf,                \* the vector-draw exporter's last document: <<>> or <<document>>
    viewer,             \* which of the three InvoiceViewer variants is mounted
    jobs,               \* the export calls started so far, each at its own await
    pendingAction,      \* hidden-copy viewer state: <<>> or <<"download">> / <<"print">>
    renderExportCopy,   \* hidden-copy viewer state: the hidden export copy is mounted
    number,             \* invoice.number: <<>> or <<its characters>>
    filename,           \* the memoised file name, a sequence of characters
    limit,              \* how many export calls the behaviour starts at most
    line,               \* one line item and one document amount, as handed to a backend
    cells,              \* per backend: <<>> or <<the texts it renders for `line`>>
    heap,               \* the arrays and item objects of a render, by reference
    frame,              \* the references a render of the template holds
    selectedTemplate,   \* InvoiceViewer state: the template of the preview
    showProModal,       \* InvoiceViewer state: the pro modal is open
    isPro               \* useLicense(): the licence is a pro licence

vars == <<invoice, includeSignature, modern, variant, pdf,
          viewer, jobs, pendingAction, renderExportCopy, number, filename,
          limit, line, cells, heap, frame, selectedTemplate, showProModal, isPro>>

\* the state of the export handlers and of the file name
exportVars == <<viewer, jobs, pendingAction, renderExportCopy>>
nameVars == <<number, filename>>
\* the cell texts, the heap of a render, the template selection
formatVars == <<line, cells>>
frameVars == <<heap, frame>>
templateVars == <<selectedTemplate, showProModal, isPro>>
\* what neither a render, an export step nor a new document number touches
otherVars == <<limit, formatVars, frameVars, templateVars>>

----------------------------------------------------------------------------
(* Bounds of the model. *)

\* longest item list of the catalogue documents (one item per index)
MaxItems == 33
\* longest item list built freely from SampleItems
MaxRich == 3
\* the export calls a behaviour starts at most (raised, calls overlap)
MaxExports == 1

----------------------------------------------------------------------------
(* Program constants. *)

ITEMS_PER_PAGE == 12
ITEMS_PER_PAGE_LAST == 8

----------------------------------------------------------------------------
(* Optional values and numbers. *)

None == <<>>
Some(v) == <<v>>
\* a ?? d
OrElse(o, d) == IF o = None THEN d ELSE o[1]

NumScale == 10 * 1000
Num(whole, frac) == whole * NumScale + frac

Abs(n) == IF n < 0 THEN -n ELSE n
Min(a, b) == IF a < b THEN a ELSE b
Max(a, b) == IF a > b THEN a ELSE b

\* a * b on fixed-point numbers
Mul(a, b) == (a * b) \div NumScale

\* n.toFixed(2): the number of hundredths printed, rounding half away from zero
ToFixed2(n) ==
    LET q == (Abs(n) + (NumScale \div 200)) \div (NumScale \div 100)
    IN  IF n < 0 THEN -q ELSE q

----------------------------------------------------------------------------
(* Array helpers. *)

\* Array.prototype.slice(b, e): 0-based, e exclusive, negative indices from the end
SliceIndex(len, k) == IF k < 0 THEN Max(len + k, 0) ELSE Min(k, len)

Slice(arr, b, e) ==
    LET from == SliceIndex(Len(arr), b)
        to   == SliceIndex(Len(arr), e)
    IN  IF to <= from THEN <<>> ELSE SubSeq(arr, from + 1, to)

\* arr.slice(b)
SliceFrom(arr, b) == Slice(arr, b, Len(arr))

RECURSIVE ChunkLoop(_, _, _)
\* the loop of chunk(): for (i; i < arr.length; i += size) out.push(arr.slice(i, i + size))
ChunkLoop(arr, size, i) ==
    IF i < Len(arr)
    THEN <<Slice(arr, i, i + size)>> \o ChunkLoop(arr, size, i + size)
    ELSE <<>>

RECURSIVE ChunkLoopInclusive(_, _, _)
\* chunk's loop with the test i <= arr.length
ChunkLoopInclusive(arr, size, i) ==
    IF i <= Len(arr)
    THEN <<Slice(arr, i, i + size)>> \o ChunkLoopInclusive(arr, size, i + size)
    ELSE <<>>

chunkInclusive(arr, size) == ChunkLoopInclusive(arr, size, 0)

chunk(arr, size) == ChunkLoop(arr, size, 0)

----------------------------------------------------------------------------
(* Line items and documents. *)

\* type Item: description, quantity, unitPrice, total?, vatRate?
Item(description, quantity, unitPrice, total, vatRate) ==
    [description |-> description, quantity |-> quantity, unitPrice |-> unitPrice,
     total |-> total, vatRate |-> vatRate]

\* items with every shape of optional field; products and tax quotients are exact
SampleItems ==
    { Item(Some("a"), Num(1, 0),    Num(5, 0),    None,            Some(20)),
      Item(Some("b"), Num(0, 5000), Num(1, 2500), None,            Some(20)),
      Item(Some("c"), Num(1, 0),    Num(3, 0),    None,            Some(0)),
      Item(None,      Num(0, 5000), Num(1, 2500), Some(Num(9, 0)), None),
      Item(Some(""),  Num(1, 5000), Num(2, 5000), Some(Num(1, 0)), Some(7)) }

\* the i-th item of a catalogue document: told apart by its description
CatalogueItem(i) ==
    Item(Some(ToString(i)), Num(1, 0), Num(1, 0), None,
         IF i % 3 = 0 THEN Some(20) ELSE IF i % 3 = 1 THEN Some(0) ELSE None)

SeqsUpTo(S, n) == UNION { [1..k -> S] : k \in 0..n }

\* short item lists of every make-up, and one catalogue list per length
SampleLists == SeqsUpTo(SampleItems, MaxRich)
CatalogueLists == { [i \in 1..n |-> CatalogueItem(i)] : n \in 0..MaxItems }

\* item.total ?? unitPrice * quantity
LineTotal(item) == OrElse(item.total, Mul(item.unitPrice, item.quantity))

\* the tax of one line: unitPrice * quantity * rate / 100, rate absent counted as 0
LineTax(item) == (Mul(item.unitPrice, item.quantity) * OrElse(item.vatRate, 0)) \div 100

RECURSIVE SumLineTotals(_, _)
SumLineTotals(items, i) ==
    IF i > Len(items) THEN 0 ELSE LineTotal(items[i]) + SumLineTotals(items, i + 1)

RECURSIVE SumLineTax(_, _)
SumLineTax(items, i) ==
    IF i > Len(items) THEN 0 ELSE LineTax(items[i]) + SumLineTax(items, i + 1)

\* Document.subtotal as stored: the sum of the item totals before tax
DocSubtotal(items) == SumLineTotals(items, 1)

\* Document.totalTTC as stored: the subtotal plus the tax of every line
DocTotalTTC(items) == DocSubtotal(items) + SumLineTax(items, 1)

\* a document with its stored totals
Document(its) ==
    [items |-> its,
     subtotal |-> Some(DocSubtotal(OrElse(its, <<>>))),
     totalTTC |-> Some(DocTotalTTC(OrElse(its, <<>>)))]

\* the documents a viewer can be opened on: the catalogue documents, and the
\* short documents with the item list and the two stored totals each
\* present or absent
Invoices ==
    { Document(Some(l)) : l \in CatalogueLists }
    \cup UNION { { [Document(its) EXCEPT !.subtotal = st, !.totalTTC = tt] :
                     st \in {None, Document(its).subtotal},
                     tt \in {None, Document(its).totalTTC} } :
                 its \in {None} \cup { Some(l) : l \in SampleLists } }

----------------------------------------------------------------------------
(* Template2Modern.tsx: paginator, tax aggregator, page composer. *)

\* const money = (n?: number) => `${(n ?? 0).toFixed(2)} MAD`
money(n) == ToFixed2(OrElse(n, 0))

\* the paginator with the reservation taken at the front of the list
ModernPagesReserveFirst(data) ==
    LET items == OrElse(data.items, <<>>)
    IN  IF Len(items) = 0 THEN << <<>> >>
        ELSE IF Len(items) <= ITEMS_PER_PAGE_LAST THEN <<items>>
        ELSE chunk(SliceFrom(items, ITEMS_PER_PAGE_LAST), ITEMS_PER_PAGE)
             \o <<Slice(items, 0, ITEMS_PER_PAGE_LAST)>>

\* the paginator reserving a full page's worth of items for the last page
ModernPagesReserveFull(data) ==
    LET items == OrElse(data.items, <<>>)
        headCount == Len(items) - ITEMS_PER_PAGE
    IN  IF Len(items) = 0 THEN << <<>> >>
        ELSE IF Len(items) <= ITEMS_PER_PAGE_LAST THEN <<items>>
        ELSE chunk(Slice(items, 0, headCount), ITEMS_PER_PAGE) \o <<SliceFrom(items, headCount)>>

\* the paginator without its single-page case
ModernPagesNoSinglePage(data) ==
    LET items == OrElse(data.items, <<>>)
        headCount == Len(items) - ITEMS_PER_PAGE_LAST
    IN  IF Len(items) = 0 THEN << <<>> >>
        ELSE chunk(Slice(items, 0, headCount), ITEMS_PER_PAGE) \o <<SliceFrom(items, headCount)>>

\* the paginator chunking short-chunk-first (the remainder leads)
ModernPagesShortFirst(data) ==
    LET items == OrElse(data.items, <<>>)
        headCount == Len(items) - ITEMS_PER_PAGE_LAST
        lead == headCount % ITEMS_PER_PAGE
    IN  IF Len(items) = 0 THEN << <<>> >>
        ELSE IF Len(items) <= ITEMS_PER_PAGE_LAST THEN <<items>>
        ELSE (IF lead = 0 THEN <<>> ELSE <<Slice(items, 0, lead)>>)
             \o chunk(Slice(items, lead, headCount), ITEMS_PER_PAGE)
             \o <<SliceFrom(items, headCount)>>

\* the paginator cutting the head of the list by the last page's capacity
ModernPagesChunkByLast(data) ==
    LET items == OrElse(data.items, <<>>)
        headCount == Len(items) - ITEMS_PER_PAGE_LAST
    IN  IF Len(items) = 0 THEN << <<>> >>
        ELSE IF Len(items) <= ITEMS_PER_PAGE_LAST THEN <<items>>
        ELSE chunk(Slice(items, 0, headCount), ITEMS_PER_PAGE_LAST)
             \o <<SliceFrom(items, headCount)>>

\* const pages = useMemo(...): the item slices, one per page
ModernPages(data) ==
    LET items == OrElse(data.items, <<>>)
        headCount == Len(items) - ITEMS_PER_PAGE_LAST
        middle == chunk(Slice(items, 0, headCount), ITEMS_PER_PAGE)
    IN  IF Len(items) = 0 THEN << <<>> >>
        ELSE IF Len(items) <= ITEMS_PER_PAGE_LAST THEN <<items>>
        ELSE middle \o <<SliceFrom(items, headCount)>>

\* a Record<number, {amount, products}>: a function from its keys
EmptyRecord == [k \in {} |-> None]
Put(acc, k, v) == [x \in (DOMAIN acc) \cup {k} |-> IF x = k THEN v ELSE acc[x]]

\* the tax of a line taken from its total field
ModernVatAmountFromTotal(item) ==
    (LineTotal(item) * OrElse(item.vatRate, 0)) \div 100

\* const vatAmount = ((item.unitPrice ?? 0) * (item.quantity ?? 0) * rate) / 100
ModernVatAmount(item) ==
    (Mul(item.unitPrice, item.quantity) * OrElse(item.vatRate, 0)) \div 100

\* item.description || ''
DescriptionOrEmpty(item) == OrElse(item.description, "")

\* the forEach body with the products unshifted instead of pushed
ModernVatStepUnshift(acc, item) ==
    LET rate == OrElse(item.vatRate, 0)
        cur == IF rate \in DOMAIN acc THEN acc[rate] ELSE [amount |-> 0, products |-> <<>>]
    IN  Put(acc, rate, [amount |-> cur.amount + ModernVatAmount(item),
                        products |-> <<DescriptionOrEmpty(item)>> \o cur.products])

\* the forEach body of vatGroups: one item accumulated into its rate's bucket
ModernVatStep(acc, item) ==
    LET rate == OrElse(item.vatRate, 0)
        cur == IF rate \in DOMAIN acc THEN acc[rate] ELSE [amount |-> 0, products |-> <<>>]
    IN  Put(acc, rate, [amount |-> cur.amount + ModernVatAmount(item),
                        products |-> Append(cur.products, DescriptionOrEmpty(item))])

RECURSIVE ModernVatLoop(_, _, _)
ModernVatLoop(items, i, acc) ==
    IF i > Len(items) THEN acc
    ELSE ModernVatLoop(items, i + 1, ModernVatStep(acc, items[i]))

\* the aggregator starting from a bucket for the rate 0
ModernVatGroupsZeroBucket(items) ==
    ModernVatLoop(items, 1, Put(EmptyRecord, 0, [amount |-> 0, products |-> <<>>]))

\* const vatGroups = useMemo(...): (data.items as Item[]).forEach(...)
ModernVatGroups(items) == ModernVatLoop(items, 1, EmptyRecord)

RECURSIVE SortedKeys(_)
\* Object.keys of a record whose keys are whole non-negative numbers: ascending
SortedKeys(S) ==
    IF S = {} THEN <<>>
    ELSE LET m == CHOOSE x \in S : \A y \in S : x <= y
         IN  <<m>> \o SortedKeys(S \ {m})

\* const rates = Object.keys(vatGroups)
ObjectKeys(record) == SortedKeys(DOMAIN record)

\* one element of the rendered layout: a .pdf-page or a forced page break
PageElement(role, items, totals, clientBoxes) ==
    [kind |-> "page", role |-> role, header |-> TRUE, clientBoxes |-> clientBoxes,
     items |-> items, totals |-> totals, footer |-> TRUE]

PageBreak ==
    [kind |-> "break", role |-> "none", header |-> FALSE, clientBoxes |-> FALSE,
     items |-> <<>>, totals |-> None, footer |-> FALSE]

\* the right-hand totals panel: Total HT, one TVA line per rate, TOTAL TTC
ModernTotals(data, vatGroups) ==
    LET rates == ObjectKeys(vatGroups)
    IN  [subtotal |-> money(data.subtotal),
         vat |-> [i \in 1..Len(rates) |->
                    [rate |-> rates[i],
                     products |-> IF Len(rates) > 1
                                  THEN Some(vatGroups[rates[i]].products) ELSE None,
                     amount |-> money(Some(vatGroups[rates[i]].amount))]],
         total |-> money(data.totalTTC)]

\* the totals flag raised on every page
ModernIsLastAlways(pageIndex, pages) == pageIndex <= Len(pages) - 1

\* const isLast = pageIndex === pages.length - 1   (pageIndex counted from 0)
ModernIsLast(pageIndex, pages) == pageIndex = Len(pages) - 1

\* pages.map((items, pageIndex) => <div className="pdf-page"> ... )
ModernItemPages(data, pages, vatGroups) ==
    [p \in 1..Len(pages) |->
        PageElement("items", pages[p],
                    IF ModernIsLast(p - 1, pages)
                    THEN Some(ModernTotals(data, vatGroups)) ELSE None,
                    TRUE)]

\* a signature block that spills onto a second page
ModernSignaturePageTwice(includeSig) ==
    IF includeSig
    THEN <<PageElement("signature", <<>>, None, FALSE),
           PageElement("signature", <<>>, None, FALSE)>>
    ELSE <<>>

\* {includeSignature && <div className="pdf-page"> ... Signature ... }
ModernSignaturePage(includeSig) ==
    IF includeSig THEN <<PageElement("signature", <<>>, None, FALSE)>> ELSE <<>>

\* what a render that threw leaves: nothing
RenderError == [status |-> "error", pages |-> <<>>, vatGroups |-> EmptyRecord, dom |-> <<>>]

\* export default function Template2Modern({ data, type, includeSignature })
\* (data.items as Item[]).forEach throws when the item list is absent
Template2Modern(data, includeSig) ==
    IF data.items = None THEN RenderError
    ELSE LET pages == ModernPages(data)
             vatGroups == ModernVatGroups(data.items[1])
         IN  [status |-> "ok", pages |-> pages, vatGroups |-> vatGroups,
              dom |-> ModernItemPages(data, pages, vatGroups)
                      \o ModernSignaturePage(includeSig)]

----------------------------------------------------------------------------
(* The second Template2Modern variant (forced page-break markers). *)

\* const pages = useMemo(...)
VariantPages(data) ==
    LET items == OrElse(data.items, <<>>)
        headCount == Len(items) - ITEMS_PER_PAGE_LAST
        middle == chunk(Slice(items, 0, headCount), ITEMS_PER_PAGE)
    IN  IF Len(items) = 0 THEN << <<>> >>
        ELSE IF Len(items) <= ITEMS_PER_PAGE_LAST THEN <<items>>
        ELSE middle \o <<SliceFrom(items, headCount)>>

\* the forEach body of vatGroups
VariantVatStep(acc, item) ==
    LET rate == OrElse(item.vatRate, 0)
        vatAmount == (Mul(item.unitPrice, item.quantity) * rate) \div 100
        cur == IF rate \in DOMAIN acc THEN acc[rate] ELSE [amount |-> 0, products |-> <<>>]
    IN  Put(acc, rate, [amount |-> cur.amount + vatAmount,
                        products |-> Append(cur.products, DescriptionOrEmpty(item))])

RECURSIVE VariantVatLoop(_, _, _)
VariantVatLoop(items, i, acc) ==
    IF i > Len(items) THEN acc
    ELSE VariantVatLoop(items, i + 1, VariantVatStep(acc, items[i]))

\* const vatGroups = useMemo(...)
VariantVatGroups(items) == VariantVatLoop(items, 1, EmptyRecord)

\* the totals panel: (data.subtotal ?? 0).toFixed(2), amount.toFixed(2), (data.totalTTC ?? 0).toFixed(2)
VariantTotals(data, vatGroups) ==
    LET rates == ObjectKeys(vatGroups)
    IN  [subtotal |-> ToFixed2(OrElse(data.subtotal, 0)),
         vat |-> [i \in 1..Len(rates) |->
                    [rate |-> rates[i],
                     products |-> IF Len(rates) > 1
                                  THEN Some(vatGroups[rates[i]].products) ELSE None,
                     amount |-> ToFixed2(vatGroups[rates[i]].amount)]],
         total |-> ToFixed2(OrElse(data.totalTTC, 0))]

\* the totals flag raised on the first page
VariantIsLastFirst(pageIndex, pages) == pageIndex = 0

\* const isLast = pageIndex === pages.length - 1
VariantIsLast(pageIndex, pages) == pageIndex = Len(pages) - 1

RECURSIVE VariantItemPages(_, _, _, _)
\* pages.map(...): the page, then a html2pdf__page-break unless it is the last
VariantItemPages(data, pages, vatGroups, p) ==
    IF p > Len(pages) THEN <<>>
    ELSE <<PageElement("items", pages[p],
                       IF VariantIsLast(p - 1, pages)
                       THEN Some(VariantTotals(data, vatGroups)) ELSE None,
                       TRUE)>>
         \o (IF p - 1 < Len(pages) - 1 THEN <<PageBreak>> ELSE <<>>)
         \o VariantItemPages(data, pages, vatGroups, p + 1)

\* {includeSignature && <> page break, signature page </>}
VariantSignaturePage(includeSig) ==
    IF includeSig THEN <<PageBreak, PageElement("signature", <<>>, None, FALSE)>> ELSE <<>>

\* export default function Template2Modern({ data, type, includeSignature })
Template2ModernVariant(data, includeSig) ==
    IF data.items = None THEN RenderError
    ELSE LET pages == VariantPages(data)
             vatGroups == VariantVatGroups(data.items[1])
         IN  [status |-> "ok", pages |-> pages, vatGroups |-> vatGroups,
              dom |-> VariantItemPages(data, pages, vatGroups, 1)
                      \o VariantSignaturePage(includeSig)]

----------------------------------------------------------------------------
(* InvoiceViewer: the vector-draw exporter (jsPDF + autoTable). *)

\* millimetres of the A4 portrait page and of the layout
PageHeight == 297
MarginTop == 36
MarginBottom == 24
boxY == 36
boxH == 28
\* styles: { fontSize: 9, cellPadding: 2 }
FontSize == 9
CellPadding == 2

\* let cursorY = boxY + boxH + 6
cursorY == boxY + boxH + 6

\* height of a one-line table row in micrometres: the 9 pt font at jsPDF's line
\* height factor 1.15 (1 pt = 25.4/72 mm), plus the cell padding above and below
RowHeight == (FontSize * 25400 * 115) \div (72 * 100) + 2 * CellPadding * 1000

\* body rows autoTable fits under the head row on a page whose table starts at startY
RowsOnPage(startY) ==
    Max(1, ((PageHeight - MarginBottom - startY) * 1000 - RowHeight) \div RowHeight)

\* autoTable(doc, { startY: cursorY, head, body }): the rows flow down the first
\* page from cursorY and then down each further page from the top margin
AutoTable(body) ==
    LET first == RowsOnPage(cursorY)
    IN  <<Slice(body, 0, first)>> \o chunk(SliceFrom(body, first), RowsOnPage(MarginTop))

\* the reducer of vatGroups in handleDownload (and, verbatim, in handlePrint)
PdfVatStep(acc, item) ==
    LET vatRate == OrElse(item.vatRate, 0)
        vatAmount == (Mul(item.unitPrice, item.quantity) * vatRate) \div 100
        cur == IF vatRate \in DOMAIN acc THEN acc[vatRate]
               ELSE [amount |-> 0, products |-> <<>>]
    IN  Put(acc, vatRate, [amount |-> cur.amount + vatAmount,
                           products |-> Append(cur.products, DescriptionOrEmpty(item))])

RECURSIVE PdfVatLoop(_, _, _)
PdfVatLoop(items, i, acc) ==
    IF i > Len(items) THEN acc
    ELSE PdfVatLoop(items, i + 1, PdfVatStep(acc, items[i]))

\* const vatGroups = (invoice?.items || []).reduce(..., {})
PdfVatGroups(data) == PdfVatLoop(OrElse(data.items, <<>>), 1, EmptyRecord)

\* const fmtMoney = (v: number) => `${(v ?? 0).toFixed(2)} MAD`
fmtMoney(v) == ToFixed2(v)

RECURSIVE PdfTaxSum(_, _, _)
\* let tv = 0; rates.forEach((r) => { ... tv += vatGroups[+r].amount })
PdfTaxSum(vatGroups, rates, i) ==
    IF i > Len(rates) THEN 0
    ELSE vatGroups[rates[i]].amount + PdfTaxSum(vatGroups, rates, i + 1)

\* the totals drawn under the table: Total HT, one TVA line per rate, TOTAL TTC
PdfTotals(data, vatGroups) ==
    LET rates == ObjectKeys(vatGroups)
        tv == PdfTaxSum(vatGroups, rates, 1)
    IN  [subtotal |-> fmtMoney(OrElse(data.subtotal, 0)),
         vat |-> [i \in 1..Len(rates) |->
                    [rate |-> rates[i], products |-> None,
                     amount |-> fmtMoney(vatGroups[rates[i]].amount)]],
         total |-> fmtMoney(OrElse(data.totalTTC, OrElse(data.subtotal, 0) + tv))]

\* one physical page of the PDF: its table rows, the totals block and the
\* signature slot when drawn on it, the header band, the footer band, the
\* client box and the date box
PdfPage(rows, totals, signature, header, footer, clientBoxes) ==
    [rows |-> rows, totals |-> totals, signature |-> signature,
     header |-> header, footer |-> footer, clientBoxes |-> clientBoxes]

\* drawFooter(doc, pageNumber, totalPagesExp): `Page N / {total_pages_count_string}`;
\* the placeholder token is the absent total
Footer(pageNumber) == [pageNumber |-> pageNumber, total |-> None]

\* the pages autoTable draws; on each one its didDrawPage hook (set by
\* setDefaults) draws the header and the footer, the page number read from
\* doc.internal.getNumberOfPages() being the number of the page just drawn.
\* The client box and the date box are drawn once, at boxY on the page the
\* document starts with, before autoTable is called
PdfTablePages(data, vatGroups) ==
    LET table == AutoTable(OrElse(data.items, <<>>))
    IN  [p \in 1..Len(table) |->
            PdfPage(table[p],
                    IF p = Len(table) THEN Some(PdfTotals(data, vatGroups)) ELSE None,
                    FALSE, TRUE, Some(Footer(p)), p = 1)]

\* if (includeSignature) { doc.addPage(); ... doc.rect(px, py, sigW, sigH) ... }:
\* jsPDF's addPage runs no autoTable hook, nothing draws a header or a footer
PdfSignaturePage(includeSig, pageNumber) ==
    IF includeSig THEN <<PdfPage(<<>>, None, TRUE, FALSE, None, FALSE)>> ELSE <<>>

\* doc.putTotalPages(totalPagesExp): every placeholder token in the document
\* becomes the number of pages the document has at the call
PutTotalPages(pages) ==
    [p \in 1..Len(pages) |->
        IF pages[p].footer = None \/ pages[p].footer[1].total # None THEN pages[p]
        ELSE [pages[p] EXCEPT !.footer = Some([pages[p].footer[1] EXCEPT
                                                 !.total = Some(Len(pages))])]]

\* the pages as drawn, before the substitution: the table pages, the totals
\* on the page the table ended on, then the signature page
PdfDrawnPages(data, includeSig, vatGroups) ==
    PdfTablePages(data, vatGroups)
    \o PdfSignaturePage(includeSig, Len(PdfTablePages(data, vatGroups)) + 1)

\* the pages with no substitution at all
PdfFinalPagesNoSubstitution(drawn) == drawn

\* the pages of the document that is saved or output for printing
PdfFinalPages(drawn) == PutTotalPages(drawn)

\* the document handleDownload / handlePrint produces
PdfDocument(data, includeSig, action) ==
    LET vatGroups == PdfVatGroups(data)
    IN  [action |-> action,
         includeSignature |-> includeSig,
         vatGroups |-> vatGroups,
         pages |-> PdfFinalPages(PdfDrawnPages(data, includeSig, vatGroups))]

----------------------------------------------------------------------------
(* The file name (InvoiceViewer.tsx, once per viewer variant).  A string is *)
(* the sequence of its characters.                                          *)

\* the longest document number drawn
MaxNumberLen == 2

\* \w of the regular expression: [A-Za-z0-9_]
WordChars ==
    {"A", "B", "C", "D", "E", "F", "G", "H", "I", "J", "K", "L", "M",
     "N", "O", "P", "Q", "R", "S", "T", "U", "V", "W", "X", "Y", "Z",
     "a", "b", "c", "d", "e", "f", "g", "h", "i", "j", "k", "l", "m",
     "n", "o", "p", "q", "r", "s", "t", "u", "v", "w", "x", "y", "z",
     "0", "1", "2", "3", "4", "5", "6", "7", "8", "9", "_"}

\* the characters a document number is drawn from: some word characters,
\* the hyphen, and characters the expression does not list (a space, a
\* slash, an accented letter, which \w does not match without the u flag)
NumberChars == {"A", "z", "7", "_", "-", " ", "/", "é"}

\* a replacement that drops the hyphen from the class
ReplaceUnsafeNoHyphen(str) ==
    [i \in 1..Len(str) |-> IF str[i] \in WordChars THEN str[i] ELSE "_"]

\* .replace(/[^\w\-]/g, '_')
ReplaceUnsafe(str) ==
    [i \in 1..Len(str) |-> IF str[i] \in WordChars \cup {"-"} THEN str[i] ELSE "_"]

\* invoice?.number || 'Facture': absent and '' are both falsy
NumberOrDefault(num) ==
    IF num = None \/ num[1] = <<>> THEN <<"F", "a", "c", "t", "u", "r", "e">> ELSE num[1]

\* `Facture_${safe}.pdf`
FactureName(safe) ==
    <<"F", "a", "c", "t", "u", "r", "e", "_">> \o safe \o <<".", "p", "d", "f">>

\* the capture viewer's filename (useMemo on invoice?.number)
CaptureFilename(num) == FactureName(ReplaceUnsafe(NumberOrDefault(num)))

\* the vector viewer's filename
VectorFilename(num) == FactureName(ReplaceUnsafe(NumberOrDefault(num)))

\* the hidden-copy viewer's filename
HiddenFilename(num) == FactureName(ReplaceUnsafe(NumberOrDefault(num)))

\* the document numbers drawn: absent, empty, and every string up to the bound
DocumentNumbers == {None} \cup { Some(str) : str \in SeqsUpTo(NumberChars, MaxNumberLen) }

\* the file name the mounted viewer computes
Filename(v, num) ==
    CASE v = "capture" -> CaptureFilename(num)
      [] v = "vector" -> VectorFilename(num)
      [] v = "hidden" -> HiddenFilename(num)

----------------------------------------------------------------------------
(* The texts of the cells.  In this part a number is an integer count of    *)
(* thousandths and a text is the sequence of its characters, so that the    *)
(* digits toFixed prints are there to be counted.  A tie is rounded away    *)
(* from zero, as toFixed does on a number that is the tie exactly.          *)

FmtScale == 1000
DigitChars == <<"0", "1", "2", "3", "4", "5", "6", "7", "8", "9">>

RECURSIVE Pow10(_)
Pow10(d) == IF d = 0 THEN 1 ELSE 10 * Pow10(d - 1)

RECURSIVE NatText(_)
\* the decimal digits of a natural number, no leading zero
NatText(n) ==
    IF n < 10 THEN <<DigitChars[n + 1]>>
    ELSE NatText(n \div 10) \o <<DigitChars[(n % 10) + 1]>>

RECURSIVE FracText(_, _)
\* the last `digits` decimal digits of n, zeros kept
FracText(n, digits) ==
    IF digits = 0 THEN <<>>
    ELSE FracText(n \div 10, digits - 1) \o <<DigitChars[(n % 10) + 1]>>

\* Number.prototype.toFixed printing every digit of the number it is given
toFixedAllDigits(n, digits) ==
    (IF n < 0 THEN <<"-">> ELSE <<>>)
    \o NatText(Abs(n) \div FmtScale) \o <<".">> \o FracText(Abs(n) % FmtScale, 3)

\* Number.prototype.toFixed(digits), digits <= 3: a "-" when the number is
\* below zero, the integer part, a point, and `digits` digits of the
\* fraction rounded to nearest
toFixed(n, digits) ==
    LET unit == FmtScale \div Pow10(digits)
        q == (Abs(n) + unit \div 2) \div unit
    IN  (IF n < 0 THEN <<"-">> ELSE <<>>)
        \o NatText(q \div Pow10(digits))
        \o (IF digits = 0 THEN <<>> ELSE <<".">> \o FracText(q % Pow10(digits), digits))

\* a * b on thousandths
MulCell(a, b) == (a * b) \div FmtScale

MAD == <<" ", "M", "A", "D">>
Unite == <<"u", "n", "i", "t", "é">>

\* a || b on an optional string: absent and '' are falsy
OrString(o, d) == IF o = None \/ o = Some(<<>>) THEN d ELSE o[1]

\* type Item as the cells read it: quantity, unit?, unitPrice, total?
CellItem(quantity, unit, unitPrice, total) ==
    [quantity |-> quantity, unit |-> unit, unitPrice |-> unitPrice, total |-> total]

\* const money = (n?: number) => `${(n ?? 0).toFixed(2)} MAD`, as text
moneyText(n) == toFixed(OrElse(n, 0), 2) \o MAD

\* const fmtMoney = (v: number) => `${(v ?? 0).toFixed(2)} MAD`, as text
fmtMoneyText(v) == toFixed(OrElse(v, 0), 2) \o MAD

\* const total = item.total ?? (item.unitPrice ?? 0) * (item.quantity ?? 0)
CellTotal(item) ==
    OrElse(item.total, MulCell(OrElse(item.unitPrice, 0), OrElse(item.quantity, 0)))

\* ItemsTable of Template2Modern: the quantity, unit price and total cells of
\* a row, and the `Total HT` amount of the totals block, money(data.subtotal)
ModernCells(item, subtotal) ==
    [quantity |-> toFixed(OrElse(item.quantity, 0), 3) \o <<" ">>
                  \o OrString(item.unit, Unite),
     unitPrice |-> moneyText(item.unitPrice),
     total |-> moneyText(Some(CellTotal(item))),
     subtotal |-> moneyText(subtotal)]

\* the same cells in the second variant, which formats in place:
\* {(item.unitPrice ?? 0).toFixed(2)} MAD, {total.toFixed(2)} MAD,
\* {(data.subtotal ?? 0).toFixed(2)} MAD
VariantCells(item, subtotal) ==
    [quantity |-> toFixed(OrElse(item.quantity, 0), 3) \o <<" ">>
                  \o OrString(item.unit, Unite),
     unitPrice |-> toFixed(OrElse(item.unitPrice, 0), 2) \o MAD,
     total |-> toFixed(CellTotal(item), 2) \o MAD,
     subtotal |-> toFixed(OrElse(subtotal, 0), 2) \o MAD]

\* the row of `body` in handleDownload and handlePrint:
\* `${(it.quantity ?? 0).toFixed(3)} ${it.unit || ''}`, fmtMoney(it.unitPrice ?? 0),
\* fmtMoney(it.total ?? ...), and fmtMoney(invoice?.subtotal ?? 0)
PdfCells(item, subtotal) ==
    [quantity |-> toFixed(OrElse(item.quantity, 0), 3) \o <<" ">>
                  \o OrString(item.unit, <<>>),
     unitPrice |-> fmtMoneyText(Some(OrElse(item.unitPrice, 0))),
     total |-> fmtMoneyText(Some(CellTotal(item))),
     subtotal |-> fmtMoneyText(Some(OrElse(subtotal, 0)))]

Backends == {"modern", "variant", "pdf"}

\* what a backend renders for a line
Cells(backend, l) ==
    CASE backend = "modern" -> ModernCells(l.item, l.subtotal)
      [] backend = "variant" -> VariantCells(l.item, l.subtotal)
      [] backend = "pdf" -> PdfCells(l.item, l.subtotal)

\* the quantities, unit labels, unit prices, line totals and document amounts
\* drawn: zero, negative, below a hundredth, above a million, absent
Quantities == {None, Some(0), Some(1500), Some(2000)}
Units == {None, Some(<<>>), Some(<<"k", "g">>)}
UnitPrices == {None, Some(0), Some(2500), Some(-1250)}
LineTotals == {None, Some(0), Some(1234567890)}
Subtotals == {None, Some(-4), Some(-1004), Some(1234567890)}

Lines ==
    { [item |-> CellItem(q, u, p, t), subtotal |-> a] :
        q \in Quantities, u \in Units, p \in UnitPrices, t \in LineTotals,
        a \in Subtotals }

----------------------------------------------------------------------------
(* A render of Template2Modern on a heap.  An array and an item object are  *)
(* known by reference: an index into heap.arrays or heap.objects; an array  *)
(* of items holds the references of its items.  slice allocates, push       *)
(* writes in place, and `[items]` holds the input array itself.             *)

\* const ITEMS_PER_PAGE = 12; const ITEMS_PER_PAGE_LAST = 8 (module scope)
ModuleScope ==
    [ITEMS_PER_PAGE |-> ITEMS_PER_PAGE, ITEMS_PER_PAGE_LAST |-> ITEMS_PER_PAGE_LAST]

\* the heap when the template is handed data: the item objects, and the
\* array data.items at reference 1
NewHeap(items) ==
    [arrays |-> << [i \in 1..Len(items) |-> i] >>,
     objects |-> items,
     scope |-> ModuleScope]

\* a new array on the heap; its reference is the last one
Allocate(h, elements) == [h EXCEPT !.arrays = Append(@, elements)]
LastRef(h) == Len(h.arrays)

\* an array losing the elements it hands out: splice in the place of slice
HeapSplice(h, ref, b, e) ==
    LET arr == h.arrays[ref]
        from == SliceIndex(Len(arr), b)
        to == SliceIndex(Len(arr), e)
    IN  Allocate([h EXCEPT !.arrays[ref] = Slice(arr, 0, from) \o SliceFrom(arr, Max(from, to))],
                 Slice(arr, b, e))

\* arr.slice(b, e): a new array, the source array as it was
HeapSlice(h, ref, b, e) == Allocate(h, Slice(h.arrays[ref], b, e))

\* arr.push(v): the array itself grows
HeapPush(h, ref, v) == [h EXCEPT !.arrays[ref] = Append(@, v)]

RECURSIVE HeapChunkLoop(_, _, _, _, _)
\* chunk(arr, size): out.push(arr.slice(i, i + size)) while i < arr.length
HeapChunkLoop(h, ref, size, i, out) ==
    IF i < Len(h.arrays[ref])
    THEN LET h1 == HeapSlice(h, ref, i, i + size)
         IN  HeapChunkLoop(h1, ref, size, i + size, Append(out, LastRef(h1)))
    ELSE [heap |-> h, out |-> out]

\* const pages = useMemo(...): the heap after it and the references of the pages
HeapPages(h, itemsRef) ==
    LET n == Len(h.arrays[itemsRef])
        headCount == n - h.scope.ITEMS_PER_PAGE_LAST
    IN  IF n = 0 THEN [heap |-> Allocate(h, <<>>), out |-> <<LastRef(h) + 1>>]
        ELSE IF n <= h.scope.ITEMS_PER_PAGE_LAST THEN [heap |-> h, out |-> <<itemsRef>>]
        ELSE LET h1 == HeapSlice(h, itemsRef, 0, headCount)
                 middle == HeapChunkLoop(h1, LastRef(h1), h.scope.ITEMS_PER_PAGE, 0, <<>>)
                 h2 == HeapSlice(middle.heap, itemsRef, headCount, n)
             IN  [heap |-> h2, out |-> Append(middle.out, LastRef(h2))]

RECURSIVE HeapVatLoop(_, _, _, _)
\* the forEach of vatGroups: a bucket is created with a new array products: [],
\* and the item's description is pushed onto the bucket's array
HeapVatLoop(h, itemsRef, i, acc) ==
    IF i > Len(h.arrays[itemsRef]) THEN [heap |-> h, out |-> acc]
    ELSE LET item == h.objects[h.arrays[itemsRef][i]]
             rate == OrElse(item.vatRate, 0)
             fresh == rate \notin DOMAIN acc
             h1 == IF fresh THEN Allocate(h, <<>>) ELSE h
             cur == IF fresh THEN [amount |-> 0, products |-> LastRef(h1)] ELSE acc[rate]
         IN  HeapVatLoop(HeapPush(h1, cur.products, DescriptionOrEmpty(item)),
                         itemsRef, i + 1,
                         Put(acc, rate, [cur EXCEPT !.amount = @ + ModernVatAmount(item)]))

\* const vatGroups = useMemo(...)
HeapVatGroups(h, itemsRef) == HeapVatLoop(h, itemsRef, 1, EmptyRecord)

RECURSIVE HeapComposeLoop(_, _, _, _)
\* pages.map(...) with ItemsTable's items.map(...): each page's array is read
\* and its rows go to a new array
HeapComposeLoop(h, pages, p, out) ==
    IF p > Len(pages) THEN [heap |-> h, out |-> out]
    ELSE LET page == h.arrays[pages[p]]
             h1 == Allocate(h, [i \in 1..Len(page) |-> h.objects[page[i]]])
         IN  HeapComposeLoop(h1, pages, p + 1, Append(out, LastRef(h1)))

HeapCompose(h, pages) == HeapComposeLoop(h, pages, 1, <<>>)

\* the references a render holds: data.items, then pages, vatGroups and the
\* rows as they are computed
Frame(stage, items, pages, vatGroups, tables) ==
    [stage |-> stage, items |-> items, pages |-> pages, vatGroups |-> vatGroups,
     tables |-> tables]

----------------------------------------------------------------------------
(* The components at rest. *)

NoCells == [b \in Backends |-> None]

FormatIdle ==
    /\ line = [item |-> CellItem(None, None, None, None), subtotal |-> None]
    /\ cells = NoCells

FrameIdle ==
    /\ heap = NewHeap(<<>>)
    /\ frame = Frame("none", 1, <<>>, EmptyRecord, <<>>)

\* useState<TemplateId>('template2'), useState<boolean>(false); a free licence
TemplateIdle ==
    /\ selectedTemplate = "template2"
    /\ showProModal = FALSE
    /\ isPro = FALSE

----------------------------------------------------------------------------
(* The viewer as a state machine. *)

Init ==
    /\ invoice \in Invoices
    /\ includeSignature = TRUE
    /\ modern = None
    /\ variant = None
    /\ pdf = None
    /\ viewer = "vector"
    /\ jobs = <<>>
    /\ pendingAction = None
    /\ renderExportCopy = FALSE
    /\ number = None
    /\ filename = VectorFilename(number)
    /\ limit = MaxExports
    /\ FormatIdle /\ FrameIdle /\ TemplateIdle

\* React renders Template2Modern on the viewer's props
RenderModern ==
    /\ modern' = Some(Template2Modern(invoice, includeSignature))
    /\ UNCHANGED <<invoice, includeSignature, variant, pdf>>
    /\ UNCHANGED <<exportVars, nameVars, otherVars>>

\* React renders the second variant on the viewer's props
RenderVariant ==
    /\ variant' = Some(Template2ModernVariant(invoice, includeSignature))
    /\ UNCHANGED <<invoice, includeSignature, modern, pdf>>
    /\ UNCHANGED <<exportVars, nameVars, otherVars>>

\* onChange={(e) => setIncludeSignature(e.target.checked)}: the mounted
\* templates render again with the new flag
SetIncludeSignature(checked) ==
    /\ includeSignature' = checked
    /\ modern' = IF modern = None THEN None ELSE Some(Template2Modern(invoice, checked))
    /\ variant' = IF variant = None THEN None
                  ELSE Some(Template2ModernVariant(invoice, checked))
    /\ UNCHANGED <<invoice, pdf>>
    /\ UNCHANGED <<exportVars, nameVars, otherVars>>

\* const handleDownload = async () => { ... doc.save(filename) }
HandleDownload ==
    /\ pdf' = Some(PdfDocument(invoice, includeSignature, "save"))
    /\ UNCHANGED <<invoice, includeSignature, modern, variant>>
    /\ UNCHANGED <<exportVars, nameVars, otherVars>>

\* const handlePrint = async () => { ... doc.autoPrint(); window.open(url) }
HandlePrint ==
    /\ pdf' = Some(PdfDocument(invoice, includeSignature, "print"))
    /\ UNCHANGED <<invoice, includeSignature, modern, variant>>
    /\ UNCHANGED <<exportVars, nameVars, otherVars>>

Next ==
    \/ RenderModern
    \/ RenderVariant
    \/ \E checked \in BOOLEAN : SetIncludeSignature(checked)
    \/ HandleDownload
    \/ HandlePrint

Spec == Init /\ [][Next]_vars

----------------------------------------------------------------------------
(* The export handlers step by step.  Every call of handleDownload or       *)
(* handlePrint (in the hidden-copy viewer: every run of the effect) is a    *)
(* job that advances from one await to the next; code between two awaits    *)
(* runs to completion before any other handler or continuation starts.      *)

Viewers == {"capture", "vector", "hidden"}

\* the images of a document: the company logo of the header, and the
\* signature image of the signature page
Images == {"logo", "signature"}

\* a call of action ("download" or "print") at the await pc.
\*   includeSignature: the flag the handler closed over (the effect's run
\*           closes over none: FALSE)
\*   images: per image "none" (never waited for), "waiting", "complete"
\*           (img.complete at the wait), "loaded" or "failed"
\*   attached: the element being captured (contentRef.current or
\*           exportRef.current) is mounted; FALSE again when the call is over
\*   elSignature: whether the signature page is in that element, once unmounted
\*   captured: the images in the element when its rasterisation began
\*   shown: the images the handler has drawn into the jsPDF document
\*   pages: the pages of the jsPDF document (vector viewer)
\*   out: "none", "saved" (a file was saved) or "window" (a print window opened)
\*   log: what the call has done so far, in order
Job(action, pc, sig) ==
    [action |-> action, pc |-> pc, includeSignature |-> sig,
     images |-> [img \in Images |-> "none"],
     attached |-> FALSE, elSignature |-> FALSE,
     captured |-> {}, shown |-> {}, pages |-> <<>>, out |-> "none", log |-> <<>>]

\* the outcomes of fetching and reading an image
Outcomes == {"loaded", "failed"}

\* loadImageAsDataURL with the rejection propagated to the caller
loadImageAsDataURLNoCatch(outcome) ==
    [threw |-> outcome = "failed",
     value |-> IF outcome = "loaded" THEN Some("data:") ELSE None]

\* const loadImageAsDataURL = async (url) => { try { fetch, blob, FileReader }
\* catch { return null; } }: a data URL, or null on any failure
loadImageAsDataURL(outcome) ==
    [threw |-> FALSE,
     value |-> IF outcome = "loaded" THEN Some("data:") ELSE None]

\* the status an awaited load leaves
Loaded(result) == IF result.value = None THEN "failed" ELSE "loaded"

\* a synchronous stretch of a handler is running: from the continuation of
\* its last await to doc.save / window.open
InStretch(job) == job.pc \in {"draw", "table", "drawn", "final"}
Busy == \E j \in DOMAIN jobs : InStretch(jobs[j])

\* jobs with job j replaced
WithJob(j, job) == [jobs EXCEPT ![j] = job]

\* vector viewer, handleDownload / handlePrint up to the first await:
\* new jsPDF(...); const logoDataUrl = await loadImageAsDataURL(logo)
StartVector(action) ==
    /\ viewer = "vector"
    /\ ~Busy
    /\ Len(jobs) < limit
    /\ jobs' = Append(jobs, [Job(action, "logo", includeSignature) EXCEPT
                               !.images["logo"] = "waiting",
                               !.log = <<"wait:logo">>])
    /\ UNCHANGED <<invoice, includeSignature, modern, variant, pdf>>
    /\ UNCHANGED <<viewer, pendingAction, renderExportCopy, nameVars, otherVars>>

\* the logo load settles; then const signDataUrl = includeSignature
\* ? await loadImageAsDataURL(signature) : null
LogoSettles(j, outcome) ==
    LET job == jobs[j]
        result == loadImageAsDataURL(outcome)
        settled == [job EXCEPT !.images["logo"] = Loaded(result),
                               !.log = Append(job.log, "settled:logo")]
    IN  /\ j \in DOMAIN jobs
        /\ job.pc = "logo"
        /\ ~Busy
        /\ jobs' = WithJob(j,
              IF result.threw THEN [job EXCEPT !.pc = "aborted"]
              ELSE IF job.includeSignature
                   THEN [settled EXCEPT !.pc = "signature",
                                        !.images["signature"] = "waiting",
                                        !.log = Append(settled.log, "wait:signature")]
                   ELSE [settled EXCEPT !.pc = "draw"])
        /\ UNCHANGED <<invoice, includeSignature, modern, variant, pdf>>
        /\ UNCHANGED <<viewer, pendingAction, renderExportCopy, nameVars, otherVars>>

\* the signature load settles
SignatureSettles(j, outcome) ==
    LET job == jobs[j]
        result == loadImageAsDataURL(outcome)
    IN  /\ j \in DOMAIN jobs
        /\ job.pc = "signature"
        /\ ~Busy
        /\ jobs' = WithJob(j,
              IF result.threw THEN [job EXCEPT !.pc = "aborted"]
              ELSE [job EXCEPT !.pc = "draw",
                               !.images["signature"] = Loaded(result),
                               !.log = Append(job.log, "settled:signature")])
        /\ UNCHANGED <<invoice, includeSignature, modern, variant, pdf>>
        /\ UNCHANGED <<viewer, pendingAction, renderExportCopy, nameVars, otherVars>>

\* setDefaults({ didDrawPage }) ... autoTable(doc, { startY, head, body }) and
\* the totals under the table: the table pages, each with the bands its hook
\* draws; drawHeader adds the logo if (logoDataUrl)
DrawTable(j) ==
    LET job == jobs[j]
    IN  /\ j \in DOMAIN jobs
        /\ job.pc = "draw"
        /\ jobs' = WithJob(j,
              [job EXCEPT !.pc = "table",
                          !.pages = PdfTablePages(invoice, PdfVatGroups(invoice)),
                          !.shown = { img \in {"logo"} : job.images[img] = "loaded" },
                          !.log = Append(job.log, "table")])
        /\ UNCHANGED <<invoice, includeSignature, modern, variant, pdf>>
        /\ UNCHANGED <<viewer, pendingAction, renderExportCopy, nameVars, otherVars>>

\* if (includeSignature) { doc.addPage(); ... if (signDataUrl) doc.addImage(...) }
AddSignaturePage(j) ==
    LET job == jobs[j]
        drawn == { img \in {"signature"} :
                     job.includeSignature /\ job.images[img] = "loaded" }
    IN  /\ j \in DOMAIN jobs
        /\ job.pc = "table"
        /\ jobs' = WithJob(j,
              [job EXCEPT !.pc = "drawn",
                          !.pages = job.pages
                                    \o PdfSignaturePage(job.includeSignature,
                                                        Len(job.pages) + 1),
                          !.shown = job.shown \cup drawn,
                          !.log = IF job.includeSignature
                                  THEN Append(job.log, "addPage") ELSE job.log])
        /\ UNCHANGED <<invoice, includeSignature, modern, variant, pdf>>
        /\ UNCHANGED <<viewer, pendingAction, renderExportCopy, nameVars, otherVars>>

\* if (typeof doc.putTotalPages === 'function') doc.putTotalPages(totalPagesExp)
Substitute(j) ==
    LET job == jobs[j]
    IN  /\ j \in DOMAIN jobs
        /\ job.pc = "drawn"
        /\ jobs' = WithJob(j,
              [job EXCEPT !.pc = "final",
                          !.pages = PdfFinalPages(job.pages),
                          !.log = Append(job.log, "putTotalPages")])
        /\ UNCHANGED <<invoice, includeSignature, modern, variant, pdf>>
        /\ UNCHANGED <<viewer, pendingAction, renderExportCopy, nameVars, otherVars>>

\* vector viewer, handlePrint: doc.autoPrint(); window.open(url, '_blank'),
\* the value window.open returns is not read
VectorPrint(blocked) == IF blocked THEN "none" ELSE "window"

\* capture and hidden-copy viewers, print: const win = window.open(blobUrl,
\* '_blank'); if (!win) await worker.save()
CapturePrint(blocked) == IF blocked THEN "saved" ELSE "window"

\* vector viewer: doc.save(filename), or the print output; blocked is
\* whether the browser blocks the popup
VectorOutput(j, blocked) ==
    LET job == jobs[j]
    IN  /\ j \in DOMAIN jobs
        /\ job.pc = "final"
        /\ jobs' = WithJob(j,
              IF job.action = "download"
              THEN [job EXCEPT !.pc = "done", !.out = "saved",
                               !.log = Append(job.log, "save")]
              ELSE [job EXCEPT !.pc = "done", !.out = VectorPrint(blocked),
                               !.log = Append(job.log, "open")])
        /\ UNCHANGED <<invoice, includeSignature, modern, variant, pdf>>
        /\ UNCHANGED <<viewer, pendingAction, renderExportCopy, nameVars, otherVars>>

\* the images of the template rendered with the signature flag sig: the
\* header logo, and the signature image of the signature page
TemplateImages(sig) == IF sig THEN {"logo", "signature"} ELSE {"logo"}

\* capture viewer, handleDownload / handlePrint: if (!contentRef.current)
\* return; html2pdf().from(contentRef.current).set(html2pdfOptions)... with no
\* wait before it: the rasterisation of the preview starts at once
StartCapture(action) ==
    /\ viewer = "capture"
    /\ Len(jobs) < limit
    /\ jobs' = Append(jobs, [Job(action, "capture", includeSignature) EXCEPT
                               !.attached = TRUE,
                               !.captured = TemplateImages(includeSignature),
                               !.log = <<"capture">>])
    /\ UNCHANGED <<invoice, includeSignature, modern, variant, pdf>>
    /\ UNCHANGED <<viewer, pendingAction, renderExportCopy, nameVars, otherVars>>

\* hidden-copy viewer, handleDownload / handlePrint: setPendingAction(action);
\* setRenderExportCopy(true).  The hidden copy is rendered, and the effect
\* runs when one of its dependencies [renderExportCopy, pendingAction] has
\* changed: run() passes its guard and sleeps 50 ms
RequestHidden(action) ==
    /\ viewer = "hidden"
    /\ <<renderExportCopy, pendingAction>> # <<TRUE, Some(action)>>
    /\ Len(jobs) < limit
    /\ pendingAction' = Some(action)
    /\ renderExportCopy' = TRUE
    /\ jobs' = Append(jobs, [Job(action, "sleep", FALSE) EXCEPT
                               !.attached = TRUE,
                               !.log = <<"render", "sleep">>])
    /\ UNCHANGED <<invoice, includeSignature, modern, variant, pdf>>
    /\ UNCHANGED <<viewer, nameVars, otherVars>>

\* whether the signature page is in the element a run holds: the mounted
\* copy follows the checkbox, an unmounted one keeps what it last rendered
ElSignature(job) == IF job.attached THEN includeSignature ELSE job.elSignature

\* the job starts rasterising its element as it is now
BeginCapture(job) ==
    [job EXCEPT !.pc = "capture",
                !.captured = TemplateImages(ElSignature(job)),
                !.log = Append(job.log, "capture")]

\* no image of the job is being waited for
AllSettled(job) == \A img \in Images : job.images[img] # "waiting"

\* hidden-copy viewer, await waitImages(el) after the sleep: one promise per
\* img of the element, resolved at once if img.complete; complete is the set
\* of images already complete.  With all of them resolved the capture begins
\* in the same turn.
HiddenWaitImages(j, complete) ==
    LET job == jobs[j]
        imgs == TemplateImages(ElSignature(job))
        waiting == [job EXCEPT
                      !.pc = "images",
                      !.images = [img \in Images |->
                                    IF img \notin imgs THEN "none"
                                    ELSE IF img \in complete THEN "complete"
                                    ELSE "waiting"],
                      !.log = Append(job.log, "waitImages")]
    IN  /\ j \in DOMAIN jobs
        /\ job.pc = "sleep"
        /\ complete \subseteq imgs
        /\ jobs' = WithJob(j, IF AllSettled(waiting) THEN BeginCapture(waiting)
                              ELSE waiting)
        /\ UNCHANGED <<invoice, includeSignature, modern, variant, pdf>>
        /\ UNCHANGED <<viewer, pendingAction, renderExportCopy, nameVars, otherVars>>

\* img.addEventListener('load', () => resolve()) and ('error', () => resolve()):
\* either event settles the image
Fired(event) == IF event = "load" THEN "loaded" ELSE "failed"

\* an image waited for fires load or error; Promise.all resolves with the
\* last one and the capture begins in the same turn
HiddenImageFires(j, img, event) ==
    LET job == jobs[j]
        fired == [job EXCEPT !.images[img] = Fired(event)]
    IN  /\ j \in DOMAIN jobs
        /\ job.pc = "images"
        /\ job.images[img] = "waiting"
        /\ jobs' = WithJob(j, IF AllSettled(fired) THEN BeginCapture(fired) ELSE fired)
        /\ UNCHANGED <<invoice, includeSignature, modern, variant, pdf>>
        /\ UNCHANGED <<viewer, pendingAction, renderExportCopy, nameVars, otherVars>>

\* the other runs lose their element when the hidden copy is unmounted
Detach(job) ==
    IF job.attached /\ job.pc # "done"
    THEN [job EXCEPT !.attached = FALSE, !.elSignature = includeSignature]
    ELSE job

\* capture and hidden-copy viewers: the rasterisation ends and the PDF is
\* saved, or output for printing with the fallback; the hidden-copy run then
\* cleans up: setPendingAction(null); setRenderExportCopy(false)
CaptureDone(j, blocked) ==
    LET job == jobs[j]
        out == IF job.action = "download" THEN "saved" ELSE CapturePrint(blocked)
        done == [job EXCEPT !.pc = "done", !.out = out,
                            !.attached = FALSE, !.elSignature = FALSE,
                            !.log = Append(job.log,
                                           IF job.action = "download" THEN "save"
                                           ELSE IF blocked THEN "open-save" ELSE "open")]
    IN  /\ j \in DOMAIN jobs
        /\ job.pc = "capture"
        /\ IF viewer = "hidden"
           THEN /\ jobs' = [i \in DOMAIN jobs |->
                              IF i = j THEN done ELSE Detach(jobs[i])]
                /\ pendingAction' = None
                /\ renderExportCopy' = FALSE
           ELSE /\ jobs' = WithJob(j, done)
                /\ UNCHANGED <<pendingAction, renderExportCopy>>
        /\ UNCHANGED <<invoice, includeSignature, modern, variant, pdf>>
        /\ UNCHANGED <<viewer, nameVars, otherVars>>

\* capture and hidden-copy viewers: the promise of html2pdf rejects while it
\* rasterises.  Nothing catches it: the handler, or the run of the effect,
\* ends there, before its clean-up lines
CaptureFails(j) ==
    LET job == jobs[j]
    IN  /\ j \in DOMAIN jobs
        /\ job.pc = "capture"
        /\ jobs' = WithJob(j, [job EXCEPT !.pc = "failed",
                                          !.attached = FALSE, !.elSignature = FALSE,
                                          !.log = Append(job.log, "reject")])
        /\ UNCHANGED <<invoice, includeSignature, modern, variant, pdf>>
        /\ UNCHANGED <<viewer, pendingAction, renderExportCopy, nameVars, otherVars>>

\* the document the exports are followed on: as many items as the bound
\* allows (more than one table page)
ExportInvoices == { Document(Some([i \in 1..MaxItems |-> CatalogueItem(i)])) }

\* a viewer of any of the three variants, just opened
ExportInit ==
    /\ invoice \in ExportInvoices
    /\ includeSignature = TRUE
    /\ modern = None
    /\ variant = None
    /\ pdf = None
    /\ viewer \in Viewers
    /\ jobs = <<>>
    /\ pendingAction = None
    /\ renderExportCopy = FALSE
    /\ number = None
    /\ filename = Filename(viewer, number)
    /\ limit = MaxExports
    /\ FormatIdle /\ FrameIdle /\ TemplateIdle

\* the checkbox, between two turns
ToggleSignature(checked) == ~Busy /\ SetIncludeSignature(checked)

\* the places of jobs: one more than ExportSpec fills, for the behaviours in
\* which calls overlap
JobIds == 1..(MaxExports + 1)

ExportNext ==
    \/ \E checked \in BOOLEAN : ToggleSignature(checked)
    \/ \E action \in {"download", "print"} : StartVector(action)
    \/ \E action \in {"download", "print"} : StartCapture(action)
    \/ \E action \in {"download", "print"} : RequestHidden(action)
    \/ \E j \in JobIds, outcome \in Outcomes : LogoSettles(j, outcome)
    \/ \E j \in JobIds, outcome \in Outcomes : SignatureSettles(j, outcome)
    \/ \E j \in JobIds : DrawTable(j)
    \/ \E j \in JobIds : AddSignaturePage(j)
    \/ \E j \in JobIds : Substitute(j)
    \/ \E j \in JobIds, blocked \in BOOLEAN : VectorOutput(j, blocked)
    \/ \E j \in JobIds, complete \in SUBSET Images : HiddenWaitImages(j, complete)
    \/ \E j \in JobIds, img \in Images, event \in {"load", "error"} :
          HiddenImageFires(j, img, event)
    \/ \E j \in JobIds, blocked \in BOOLEAN : CaptureDone(j, blocked)
    \/ \E j \in JobIds : CaptureFails(j)

ExportSpec == ExportInit /\ [][ExportNext]_vars

\* the same viewers with room for one more call, so that a second export can
\* start while the first is at an await
OverlapInit ==
    /\ invoice \in ExportInvoices
    /\ includeSignature = TRUE
    /\ modern = None
    /\ variant = None
    /\ pdf = None
    /\ viewer \in Viewers
    /\ jobs = <<>>
    /\ pendingAction = None
    /\ renderExportCopy = FALSE
    /\ number = None
    /\ filename = Filename(viewer, number)
    /\ limit = MaxExports + 1
    /\ FormatIdle /\ FrameIdle /\ TemplateIdle

OverlapSpec == OverlapInit /\ [][ExportNext]_vars

----------------------------------------------------------------------------
(* The file name as the document number changes. *)

\* a viewer of any of the three variants opened on a document of any number
NameInit ==
    /\ invoice = Document(Some(<<>>))
    /\ includeSignature = TRUE
    /\ modern = None
    /\ variant = None
    /\ pdf = None
    /\ viewer \in Viewers
    /\ jobs = <<>>
    /\ pendingAction = None
    /\ renderExportCopy = FALSE
    /\ number \in DocumentNumbers
    /\ filename = Filename(viewer, number)
    /\ limit = MaxExports
    /\ FormatIdle /\ FrameIdle /\ TemplateIdle

\* the parent hands the viewer a document with another number: useMemo's
\* dependency invoice?.number changes and the file name is computed again
SetNumber(num) ==
    /\ number' = num
    /\ filename' = Filename(viewer, num)
    /\ UNCHANGED <<invoice, includeSignature, modern, variant, pdf, exportVars, otherVars>>

NameNext == \E num \in DocumentNumbers : SetNumber(num)

NameSpec == NameInit /\ [][NameNext]_vars

----------------------------------------------------------------------------
(* The cells of one line in the three backends. *)

\* a line item and a document amount of any make-up, nothing rendered yet
FormatInit ==
    /\ invoice = Document(Some(<<>>))
    /\ includeSignature = TRUE
    /\ modern = None
    /\ variant = None
    /\ pdf = None
    /\ viewer = "vector"
    /\ jobs = <<>>
    /\ pendingAction = None
    /\ renderExportCopy = FALSE
    /\ number = None
    /\ filename = VectorFilename(number)
    /\ limit = MaxExports
    /\ line \in Lines
    /\ cells = NoCells
    /\ FrameIdle /\ TemplateIdle

\* a backend renders the line
RenderCells(backend) ==
    /\ cells[backend] = None
    /\ cells' = [cells EXCEPT ![backend] = Some(Cells(backend, line))]
    /\ UNCHANGED <<invoice, includeSignature, modern, variant, pdf>>
    /\ UNCHANGED <<exportVars, nameVars, limit, line, frameVars, templateVars>>

FormatNext ==
    \/ RenderCells("modern")
    \/ RenderCells("variant")
    \/ RenderCells("pdf")

FormatSpec == FormatInit /\ [][FormatNext]_vars

----------------------------------------------------------------------------
(* One render of the template, step by step, on the heap. *)

\* item lists of every make-up and of every length, with and without
\* several pages
FrameLists == SampleLists \cup CatalogueLists

FrameInit ==
    /\ invoice = Document(Some(<<>>))
    /\ includeSignature = TRUE
    /\ modern = None
    /\ variant = None
    /\ pdf = None
    /\ viewer = "vector"
    /\ jobs = <<>>
    /\ pendingAction = None
    /\ renderExportCopy = FALSE
    /\ number = None
    /\ filename = VectorFilename(number)
    /\ limit = MaxExports
    /\ FormatIdle /\ TemplateIdle
    /\ \E items \in FrameLists :
          /\ heap = NewHeap(items)
          /\ frame = Frame("props", 1, <<>>, EmptyRecord, <<>>)

FrameUnchanged ==
    /\ UNCHANGED <<invoice, includeSignature, modern, variant, pdf>>
    /\ UNCHANGED <<exportVars, nameVars, limit, formatVars, templateVars>>

\* the first useMemo
ComputePages ==
    /\ frame.stage = "props"
    /\ LET r == HeapPages(heap, frame.items)
       IN  /\ heap' = r.heap
           /\ frame' = [frame EXCEPT !.stage = "pages", !.pages = r.out]
    /\ FrameUnchanged

\* the second useMemo
ComputeVatGroups ==
    /\ frame.stage = "pages"
    /\ LET r == HeapVatGroups(heap, frame.items)
       IN  /\ heap' = r.heap
           /\ frame' = [frame EXCEPT !.stage = "vatGroups", !.vatGroups = r.out]
    /\ FrameUnchanged

\* the returned JSX: pages.map composing each page
Compose ==
    /\ frame.stage = "vatGroups"
    /\ LET r == HeapCompose(heap, frame.pages)
       IN  /\ heap' = r.heap
           /\ frame' = [frame EXCEPT !.stage = "composed", !.tables = r.out]
    /\ FrameUnchanged

FrameNext ==
    \/ ComputePages
    \/ ComputeVatGroups
    \/ Compose

FrameSpec == FrameInit /\ [][FrameNext]_vars

----------------------------------------------------------------------------
(* The template selector and the pro modal (the same code in the three      *)
(* viewer variants).                                                        *)

\* type TemplateId; const PRO_TEMPLATES: TemplateId[] = ['template4', 'template5']
TemplateIds == {"template1", "template2", "template3", "template4", "template5"}
PRO_TEMPLATES == {"template4", "template5"}

TemplateUnchanged ==
    /\ UNCHANGED <<invoice, includeSignature, modern, variant, pdf>>
    /\ UNCHANGED <<exportVars, nameVars, limit, formatVars, frameVars>>

\* the selector with no gate: setSelectedTemplate(tpl) whatever the licence
trySelectTemplateUngated(tpl) ==
    /\ selectedTemplate' = tpl
    /\ UNCHANGED <<showProModal, isPro>>
    /\ TemplateUnchanged

\* const trySelectTemplate = (tpl) => { if (PRO_TEMPLATES.includes(tpl) && !isPro)
\* { setShowProModal(true); return; } setSelectedTemplate(tpl); }
trySelectTemplate(tpl) ==
    /\ IF tpl \in PRO_TEMPLATES /\ ~isPro
       THEN showProModal' = TRUE /\ UNCHANGED selectedTemplate
       ELSE selectedTemplate' = tpl /\ UNCHANGED showProModal
    /\ UNCHANGED isPro
    /\ TemplateUnchanged

\* onClose={() => setShowProModal(false)}
CloseProModal ==
    /\ showProModal
    /\ showProModal' = FALSE
    /\ UNCHANGED <<selectedTemplate, isPro>>
    /\ TemplateUnchanged

\* useLicense() hands the viewer another value: a licence bought or lapsed
LicenceChanges(pro) ==
    /\ isPro # pro
    /\ isPro' = pro
    /\ UNCHANGED <<selectedTemplate, showProModal>>
    /\ TemplateUnchanged

\* a viewer of any of the three variants, just opened, under either licence
TemplateInit ==
    /\ invoice = Document(Some(<<>>))
    /\ includeSignature = TRUE
    /\ modern = None
    /\ variant = None
    /\ pdf = None
    /\ viewer \in Viewers
    /\ jobs = <<>>
    /\ pendingAction = None
    /\ renderExportCopy = FALSE
    /\ number = None
    /\ filename = Filename(viewer, number)
    /\ limit = MaxExports
    /\ FormatIdle /\ FrameIdle
    /\ selectedTemplate = "template2"
    /\ showProModal = FALSE
    /\ isPro \in BOOLEAN

TemplateNext ==
    \/ \E tpl \in TemplateIds : trySelectTemplate(tpl)
    \/ CloseProModal
    \/ \E pro \in BOOLEAN : LicenceChanges(pro)
    \/ \E checked \in BOOLEAN : SetIncludeSignature(checked)

TemplateSpec == TemplateInit /\ [][TemplateNext]_vars

----------------------------------------------------------------------------
(* What the properties read from a state. *)

\* the document's item list, absent read as empty
Items == OrElse(invoice.items, <<>>)
N == Len(Items)

\* the templates that have rendered without throwing
Renders == { t[1] : t \in { x \in {modern, variant} : x # None /\ x[1].status = "ok" } }

IsPage(e) == e.kind = "page"
IsItemPage(e) == e.kind = "page" /\ e.role = "items"

\* the pages of a rendered layout, and its item pages, in order
DomPages(r) == SelectSeq(r.dom, IsPage)
ItemPages(r) == SelectSeq(r.dom, IsItemPage)

\* the item slices of the item pages
ItemSlices(r) == [p \in 1..Len(ItemPages(r)) |-> ItemPages(r)[p].items]
SliceSizes(r) == [p \in 1..Len(ItemSlices(r)) |-> Len(ItemSlices(r)[p])]

RECURSIVE Flatten(_)
Flatten(slices) == IF slices = <<>> THEN <<>> ELSE Head(slices) \o Flatten(Tail(slices))

----------------------------------------------------------------------------
(* Paginator. *)

\* C1 (item conservation): the item slices of the pages a template renders,
\* concatenated in page order, are exactly the document's item sequence.
C1_ItemConservation ==
    \A r \in Renders : Flatten(ItemSlices(r)) = Items /\ Flatten(r.pages) = Items

C1_Witness ==
    /\ modern # None /\ variant # None
    /\ N = MaxItems
    /\ \A r \in Renders : Len(ItemSlices(r)) >= 3 /\ Flatten(ItemSlices(r)) = Items

\* C2 (last-page bound): with more than ITEMS_PER_PAGE_LAST items, the final
\* item page holds exactly the last ITEMS_PER_PAGE_LAST items of the list.
C2_LastPageBound ==
    \A r \in Renders :
        N > ITEMS_PER_PAGE_LAST =>
            ItemSlices(r)[Len(ItemSlices(r))] = SubSeq(Items, N - ITEMS_PER_PAGE_LAST + 1, N)

C2_Witness ==
    /\ modern # None /\ variant # None
    /\ N = ITEMS_PER_PAGE + ITEMS_PER_PAGE_LAST
    /\ \A r \in Renders : SliceSizes(r) = <<ITEMS_PER_PAGE, ITEMS_PER_PAGE_LAST>>

\* C3 (only the chunk before the reserved page may be short): with more than
\* ITEMS_PER_PAGE_LAST items, every page before the last two holds exactly
\* ITEMS_PER_PAGE items, and the page just before the final one holds between
\* 1 and ITEMS_PER_PAGE items.
C3_OnlyLastChunkShort ==
    \A r \in Renders :
        N > ITEMS_PER_PAGE_LAST =>
            LET sizes == SliceSizes(r)
                k == Len(sizes)
            IN  /\ k >= 2
                /\ \A p \in 1..(k - 2) : sizes[p] = ITEMS_PER_PAGE
                /\ sizes[k - 1] >= 1 /\ sizes[k - 1] <= ITEMS_PER_PAGE

C3_Witness ==
    /\ modern # None /\ variant # None
    /\ \A r \in Renders :
        LET sizes == SliceSizes(r)
        IN  /\ Len(sizes) = 4
            /\ sizes[1] = ITEMS_PER_PAGE /\ sizes[2] = ITEMS_PER_PAGE
            /\ sizes[3] < ITEMS_PER_PAGE

\* C4 (single-page case): with at most ITEMS_PER_PAGE_LAST items, zero
\* included, a template renders exactly one item page, it holds all the items
\* and it carries the totals block.
C4_SinglePage ==
    \A r \in Renders :
        N <= ITEMS_PER_PAGE_LAST =>
            /\ Len(ItemPages(r)) = 1
            /\ ItemPages(r)[1].items = Items
            /\ ItemPages(r)[1].totals # None

C4_Witness ==
    /\ modern # None /\ variant # None
    /\ N = ITEMS_PER_PAGE_LAST
    /\ \A r \in Renders : Len(ItemPages(r)) = 1 /\ ItemPages(r)[1].totals # None

\* C5 (no empty page): for a non-empty item list no item page has an empty
\* slice, also when N - ITEMS_PER_PAGE_LAST is a multiple of ITEMS_PER_PAGE.
C5_NoEmptyPage ==
    \A r \in Renders :
        N >= 1 => \A p \in 1..Len(ItemSlices(r)) : ItemSlices(r)[p] # <<>>

C5_Witness ==
    /\ modern # None /\ variant # None
    /\ N = 2 * ITEMS_PER_PAGE + ITEMS_PER_PAGE_LAST
    /\ \A r \in Renders :
        SliceSizes(r) = <<ITEMS_PER_PAGE, ITEMS_PER_PAGE, ITEMS_PER_PAGE_LAST>>

----------------------------------------------------------------------------
(* Page composer: the totals block. *)

\* the positions of the pages that carry a totals block
TotalsAt(pages) == { p \in 1..Len(pages) : pages[p].totals # None }

\* the exported PDF, when there is one
Pdfs == { d[1] : d \in { x \in {pdf} : x # None } }

\* the number of table pages of a PDF (the pages before the signature page)
TablePages(d) == Cardinality({ p \in 1..Len(d.pages) : ~d.pages[p].signature })

\* C6 (totals on the final item page only): in every rendered layout and in
\* every exported PDF exactly one page carries the totals block; it is the
\* last item page, never an earlier item page and never the signature page.
C6_TotalsOnLastItemPageOnly ==
    /\ \A r \in Renders :
         /\ TotalsAt(DomPages(r)) = {Len(ItemPages(r))}
         /\ DomPages(r)[Len(ItemPages(r))].role = "items"
         /\ \A p \in 1..Len(DomPages(r)) :
              DomPages(r)[p].role = "signature" => p > Len(ItemPages(r))
    /\ \A d \in Pdfs :
         /\ TotalsAt(d.pages) = {TablePages(d)}
         /\ ~d.pages[TablePages(d)].signature
         /\ \A p \in 1..Len(d.pages) : d.pages[p].signature => p > TablePages(d)

C6_Witness ==
    /\ modern # None /\ variant # None /\ pdf # None
    /\ includeSignature
    /\ N > MaxItems - 1
    /\ \A r \in Renders :
         /\ Len(ItemPages(r)) >= 3
         /\ Len(DomPages(r)) = Len(ItemPages(r)) + 1
         /\ TotalsAt(DomPages(r)) = {Len(ItemPages(r))}
    /\ \A d \in Pdfs : Len(d.pages) = 3 /\ TotalsAt(d.pages) = {2}

----------------------------------------------------------------------------
(* Tax aggregator. *)

\* the effective rate of an item: absent counted as 0
EffectiveRate(item) == OrElse(item.vatRate, 0)

\* the items of one rate, in item order
RECURSIVE ItemsOfRate(_, _)
ItemsOfRate(items, rate) ==
    IF items = <<>> THEN <<>>
    ELSE (IF EffectiveRate(Head(items)) = rate THEN <<Head(items)>> ELSE <<>>)
         \o ItemsOfRate(Tail(items), rate)

\* what the claim expects of a mapping of tax buckets
AggregatesTaxes(vatGroups, items) ==
    /\ DOMAIN vatGroups = { EffectiveRate(items[i]) : i \in 1..Len(items) }
    /\ \A rate \in DOMAIN vatGroups :
         LET sel == ItemsOfRate(items, rate)
         IN  /\ vatGroups[rate].amount = SumLineTax(sel, 1)
             /\ vatGroups[rate].products =
                  [i \in 1..Len(sel) |-> OrElse(sel[i].description, "")]

\* C7 (tax aggregation): the aggregator's mapping has exactly one bucket per
\* distinct effective rate (absent rate counted as 0); a bucket's amount is
\* the sum of unitPrice * quantity * rate / 100 over the items of that rate and
\* its description list is the descriptions of those items in item order
\* (absent description as the empty string); in the templates and the exporter.
C7_TaxAggregation ==
    /\ \A r \in Renders : AggregatesTaxes(r.vatGroups, Items)
    /\ \A d \in Pdfs : AggregatesTaxes(d.vatGroups, Items)

\* rates [20, 20, 0]: a rate-20 bucket with both descriptions, a rate-0 bucket of amount 0
C7_Witness ==
    /\ modern # None /\ variant # None /\ pdf # None
    /\ N = 3
    /\ [i \in 1..N |-> Items[i].vatRate] = <<Some(20), Some(20), Some(0)>>
    /\ Items[1].description = Some("a") /\ Items[2].description = Some("b")
    /\ \A g \in { r.vatGroups : r \in Renders } \cup { d.vatGroups : d \in Pdfs } :
         /\ DOMAIN g = {0, 20}
         /\ g[20].products = <<"a", "b">>
         /\ g[20].amount = Num(1, 1250)
         /\ g[0].amount = 0

\* the bucket amounts of a mapping
Amounts(vatGroups) == [rate \in DOMAIN vatGroups |-> vatGroups[rate].amount]

\* the item list with the total field of item i set to t
WithTotal(items, i, t) == [items EXCEPT ![i].total = t]

\* total fields to try in place of an item's own
OtherTotals == {None, Some(Num(7, 0))}

\* C8 (tax ignores the total field): the bucket amounts computed for the
\* document are those computed for the same document with any one item's
\* total field changed, in the templates and in the exporter.
C8_TaxIgnoresTotal ==
    \A i \in 1..N : \A t \in OtherTotals :
        LET other == WithTotal(Items, i, t)
        IN  /\ modern # None /\ modern[1].status = "ok" =>
                 Amounts(ModernVatGroups(other)) = Amounts(modern[1].vatGroups)
            /\ variant # None /\ variant[1].status = "ok" =>
                 Amounts(VariantVatGroups(other)) = Amounts(variant[1].vatGroups)
            /\ pdf # None =>
                 Amounts(PdfVatGroups([invoice EXCEPT !.items = Some(other)]))
                   = Amounts(pdf[1].vatGroups)

\* an item whose stored total differs from unitPrice * quantity and is taxed
C8_Witness ==
    /\ modern # None /\ variant # None /\ pdf # None
    /\ \E i \in 1..N :
         /\ Items[i].total # None
         /\ Items[i].total[1] # Mul(Items[i].unitPrice, Items[i].quantity)
         /\ EffectiveRate(Items[i]) > 0
         /\ \A r \in Renders : r.vatGroups[EffectiveRate(Items[i])].amount > 0

----------------------------------------------------------------------------
(* Totals numbers and the agreement of the backends. *)

\* the totals blocks on display, each with the buckets it was built from
ShownOn(pages, vatGroups) ==
    { [block |-> pages[p].totals[1], vatGroups |-> vatGroups] : p \in TotalsAt(pages) }

TotalsShown ==
    UNION ({ ShownOn(DomPages(r), r.vatGroups) : r \in Renders }
           \cup { ShownOn(d.pages, d.vatGroups) : d \in Pdfs })

\* the sum of the bucket amounts
TaxSum(vatGroups) == PdfTaxSum(vatGroups, SortedKeys(DOMAIN vatGroups), 1)

\* C9 (tax reconciliation): on every totals block on display, the sum of the
\* tax bucket amounts (to two decimals) plus the displayed subtotal is within
\* 0.01 of the displayed tax-inclusive total.
C9_TaxReconciliation ==
    \A s \in TotalsShown :
        Abs(ToFixed2(TaxSum(s.vatGroups)) + s.block.subtotal - s.block.total) <= 1

RECURSIVE PageOf(_, _, _)
\* the number of the page that holds the k-th item, given the page sizes
PageOf(sizes, k, p) ==
    IF k <= sizes[p] THEN p ELSE PageOf(sizes, k - sizes[p], p + 1)

\* the sizes of the table pages of a PDF
PdfSizes(d) == [p \in 1..TablePages(d) |-> Len(d.pages[p].rows)]

\* C10 (backend agreement on pagination): the exporter puts every item on the
\* page number the paginated template puts it on.
C10_SamePageAssignment ==
    \A r \in Renders : \A d \in Pdfs :
        \A k \in 1..N : PageOf(SliceSizes(r), k, 1) = PageOf(PdfSizes(d), k, 1)

\* the subtotal, the per-rate tax amounts and the grand total of a totals block
Numbers(block) ==
    [subtotal |-> block.subtotal,
     vat |-> [i \in 1..Len(block.vat) |->
                [rate |-> block.vat[i].rate, amount |-> block.vat[i].amount]],
     total |-> block.total]

\* C11 (backend agreement on totals): for the same document, absent subtotal
\* or tax-inclusive total included, the totals block the exporter draws shows
\* the same subtotal, the same per-rate tax amounts and the same grand total
\* as the totals block of the paginated template.
C11_SameTotals ==
    \A r \in Renders : \A d \in Pdfs :
        \A s \in ShownOn(DomPages(r), r.vatGroups) :
            \A t \in ShownOn(d.pages, d.vatGroups) :
                Numbers(s.block) = Numbers(t.block)

\* the rendered layout r against the layout base of the same document with
\* the flag off: one more page exactly when flag is set, that page the last
\* one and the only signature page, the item slices those of base
TemplateFrame(r, base, flag) ==
    /\ Len(DomPages(r)) = Len(DomPages(base)) + (IF flag THEN 1 ELSE 0)
    /\ ItemSlices(r) = ItemSlices(base)
    /\ \A p \in 1..Len(DomPages(r)) :
          DomPages(r)[p].role = "signature" <=> (flag /\ p = Len(DomPages(r)))

\* the rows of the table pages of a PDF
PdfRows(d) == [p \in 1..TablePages(d) |-> d.pages[p].rows]

\* the same for an exported PDF
PdfFrame(d, base, flag) ==
    /\ Len(d.pages) = Len(base.pages) + (IF flag THEN 1 ELSE 0)
    /\ PdfRows(d) = PdfRows(base)
    /\ \A p \in 1..Len(d.pages) :
          d.pages[p].signature <=> (flag /\ p = Len(d.pages))

\* C12 (signature page): with signature inclusion requested the output has
\* exactly one more page than without it, that page comes after all item
\* pages, and the item pages (count and item slices) are those produced with
\* the flag off; with the flag off there is no signature page.
C12_SignaturePageFrame ==
    /\ (modern # None /\ modern[1].status = "ok")
          => TemplateFrame(modern[1], Template2Modern(invoice, FALSE), includeSignature)
    /\ (variant # None /\ variant[1].status = "ok")
          => TemplateFrame(variant[1], Template2ModernVariant(invoice, FALSE),
                           includeSignature)
    /\ \A d \in Pdfs :
          PdfFrame(d, PdfDocument(invoice, FALSE, d.action), d.includeSignature)

\* a paginated document rendered by both templates with the flag off after a
\* PDF of it was exported with the flag on
C12_Witness ==
    /\ N > ITEMS_PER_PAGE_LAST
    /\ ~includeSignature
    /\ modern # None /\ modern[1].status = "ok"
    /\ variant # None /\ variant[1].status = "ok"
    /\ \A p \in 1..Len(modern[1].dom) : modern[1].dom[p].role # "signature"
    /\ pdf # None /\ pdf[1].includeSignature
    /\ pdf[1].pages[Len(pdf[1].pages)].signature

\* C13 (page-break markers): in the flowed layout of every template variant
\* there is exactly one forced page-break marker between every two
\* consecutive pages and none before the first page or after the last.
C13_BreakBetweenPages ==
    \A r \in Renders :
        /\ r.dom[1].kind = "page"
        /\ r.dom[Len(r.dom)].kind = "page"
        /\ \A i \in 1..(Len(r.dom) - 1) :
              (r.dom[i].kind = "page") <=> (r.dom[i + 1].kind = "break")

\* the document with its item list replaced by the empty list
WithEmptyItems(data) == [data EXCEPT !.items = Some(<<>>)]

\* C20 (recoverable with default): no render of either template fails, and a
\* document whose item list is absent is rendered like the same document
\* with an empty item list: one empty item page with its totals block and
\* no tax bucket.
C20_AbsentItemsAsEmpty ==
    /\ modern # None =>
          /\ modern[1].status = "ok"
          /\ invoice.items = None =>
                modern[1] = Template2Modern(WithEmptyItems(invoice), includeSignature)
    /\ variant # None =>
          /\ variant[1].status = "ok"
          /\ invoice.items = None =>
                variant[1] = Template2ModernVariant(WithEmptyItems(invoice),
                                                    includeSignature)

\* C14 (header and footer on every physical page): every page of the PDF the
\* vector-draw exporter saves or prints, the signature page included, carries
\* the header band and the footer band with its page counter.
C14_BandsOnEveryPage ==
    \A d \in Pdfs :
        \A p \in 1..Len(d.pages) :
            /\ d.pages[p].header
            /\ d.pages[p].footer # None
            /\ d.pages[p].footer[1].pageNumber = p

\* the letters and the digits among the characters drawn, as the regular
\* expression's \w reads them: A-Z, a-z and 0-9
Letters ==
    {"A", "B", "C", "D", "E", "F", "G", "H", "I", "J", "K", "L", "M",
     "N", "O", "P", "Q", "R", "S", "T", "U", "V", "W", "X", "Y", "Z",
     "a", "b", "c", "d", "e", "f", "g", "h", "i", "j", "k", "l", "m",
     "n", "o", "p", "q", "r", "s", "t", "u", "v", "w", "x", "y", "z"}
Digits == {"0", "1", "2", "3", "4", "5", "6", "7", "8", "9"}

\* the part of the file name between 'Facture_' and '.pdf'
SafePart == SubSeq(filename, 9, Len(filename) - 4)

AllJobs == { jobs[j] : j \in DOMAIN jobs }
VectorJobs == IF viewer = "vector" THEN AllJobs ELSE {}

\* the places of an event in a log
Places(log, event) == { i \in DOMAIN log : log[i] = event }

\* the footers of a document that still carry the placeholder token
Tokens(pages) ==
    { p \in DOMAIN pages : pages[p].footer # None /\ pages[p].footer[1].total = None }

\* the footers of a document whose total is below its number of pages
ShortTotals(pages) ==
    { p \in DOMAIN pages : /\ pages[p].footer # None
                           /\ pages[p].footer[1].total # None
                           /\ pages[p].footer[1].total[1] < Len(pages) }

\* C15 (two-phase page count): in the vector-draw exporter every footer
\* carries the placeholder token while the pages are drawn; the substitution
\* happens exactly once, after the last page (signature page included) has
\* been added and before the document is saved or output for printing; no
\* finished document holds the placeholder or a total below its page count.
C15_TwoPhasePageCount ==
    \A job \in VectorJobs :
        /\ job.pc \in {"table", "drawn"} =>
              \A p \in DOMAIN job.pages :
                 job.pages[p].footer # None => job.pages[p].footer[1].total = None
        /\ Cardinality(Places(job.log, "putTotalPages")) <= 1
        /\ \A i \in Places(job.log, "putTotalPages") :
              /\ \E k \in Places(job.log, "table") : k < i
              /\ job.includeSignature => \E k \in Places(job.log, "addPage") : k < i
              /\ \A k \in Places(job.log, "table") \cup Places(job.log, "addPage") : k < i
        /\ \A i \in Places(job.log, "save") \cup Places(job.log, "open") :
              \E k \in Places(job.log, "putTotalPages") : k < i
        /\ job.pc = "done" =>
              /\ Cardinality(Places(job.log, "putTotalPages")) = 1
              /\ Tokens(job.pages) = {}
              /\ ShortTotals(job.pages) = {}

\* a three-page document (two table pages and the signature page) saved
\* with "Page 1 / 3" in its first footer
C15_Witness ==
    \E job \in VectorJobs :
        /\ job.pc = "done" /\ job.out = "saved"
        /\ job.includeSignature
        /\ Len(job.pages) = 3
        /\ job.pages[1].footer = Some([pageNumber |-> 1, total |-> Some(3)])

\* C16 (image failure degrades gracefully): in every viewer variant a logo
\* or signature image that fails to load never aborts the export nor keeps
\* it waiting on that image; the image is left out and the export goes on to
\* save or print its PDF.
C16_ImageFailureDegrades ==
    \A job \in AllJobs :
        /\ job.pc # "aborted"
        /\ \A img \in Images :
              job.images[img] = "failed" =>
                 /\ img \notin job.shown
                 /\ job.pc # img
                 /\ job.pc = "images" => \E other \in Images : job.images[other] = "waiting"
                 /\ job.pc = "done" =>
                       /\ job.log[Len(job.log)] \in {"save", "open", "open-save"}
                       /\ viewer = "vector" => Len(job.pages) > 0 /\ Tokens(job.pages) = {}

\* a vector export whose two loads both failed and which saved its document,
\* neither image drawn
C16_Witness ==
    \E job \in VectorJobs :
        /\ job.images = [img \in Images |-> "failed"]
        /\ job.pc = "done" /\ job.out = "saved"
        /\ job.shown = {}
        /\ Len(job.pages) = 3

\* C17 (ordering of waits): drawing or rasterisation starts only after every
\* image wait has settled; in the hidden-copy viewer the capture starts only
\* after the copy was rendered and each image of the copy captured has been
\* waited for and is complete, loaded or failed.
C17_WaitsBeforeDrawing ==
    \A job \in AllJobs :
        /\ (InStretch(job) \/ job.pc \in {"capture", "done"}) => AllSettled(job)
        /\ (viewer = "hidden" /\ job.pc \in {"capture", "done"}) =>
              /\ \E r \in Places(job.log, "render") :
                    \A c \in Places(job.log, "capture") : r < c
              /\ \A img \in job.captured :
                    job.images[img] \in {"complete", "loaded", "failed"}

\* C18 (popup-blocked print fallback): in every viewer variant a finished
\* print request has either opened the print window or saved the file.
C18_PrintFallback ==
    \A job \in AllJobs :
        (job.action = "print" /\ job.pc = "done") => job.out \in {"window", "saved"}

\* C21 (zero-item document): for an empty item list each template renders
\* one item page with an empty table, flagged last: it carries the totals
\* block, with its subtotal and grand-total lines and no tax line, the
\* aggregator's mapping being empty.
C21_ZeroItemDocument ==
    invoice.items = Some(<<>>) =>
        \A r \in Renders :
            /\ Len(ItemPages(r)) = 1
            /\ ItemPages(r)[1].items = <<>>
            /\ ItemPages(r)[1].totals # None
            /\ ItemPages(r)[1].totals[1].vat = <<>>
            /\ ItemPages(r)[1].totals[1].subtotal = ToFixed2(OrElse(invoice.subtotal, 0))
            /\ ItemPages(r)[1].totals[1].total = ToFixed2(OrElse(invoice.totalTTC, 0))
            /\ DOMAIN r.vatGroups = {}

\* both templates rendered on a document with an empty item list
C21_Witness ==
    /\ invoice.items = Some(<<>>)
    /\ modern # None /\ modern[1].status = "ok"
    /\ variant # None /\ variant[1].status = "ok"
    /\ Len(modern[1].pages) = 1

\* ceil(a / b) for a >= 0, b > 0
CeilDiv(a, b) == (a + b - 1) \div b

\* C29 (page count and page capacity): for N > ITEMS_PER_PAGE_LAST the
\* paginator produces 1 + ceil((N - ITEMS_PER_PAGE_LAST) / ITEMS_PER_PAGE)
\* pages; for every N no page holds more than ITEMS_PER_PAGE items and the
\* page with the totals block holds at most ITEMS_PER_PAGE_LAST items.
C29_PageCountAndCapacity ==
    \A r \in Renders :
        /\ N > ITEMS_PER_PAGE_LAST =>
              Len(ItemPages(r)) = 1 + CeilDiv(N - ITEMS_PER_PAGE_LAST, ITEMS_PER_PAGE)
        /\ \A p \in 1..Len(ItemPages(r)) : Len(ItemPages(r)[p].items) <= ITEMS_PER_PAGE
        /\ \A p \in TotalsAt(ItemPages(r)) : Len(ItemPages(r)[p].items) <= ITEMS_PER_PAGE_LAST

\* a document one item past a full page and the last page: three pages of
\* 12, 1 and 8 items
C29_Witness ==
    /\ N = ITEMS_PER_PAGE + ITEMS_PER_PAGE_LAST + 1
    /\ modern # None /\ modern[1].status = "ok"
    /\ SliceSizes(modern[1]) = <<ITEMS_PER_PAGE, 1, ITEMS_PER_PAGE_LAST>>

\* the places of the signature page among the pages of a rendered layout
SignatureAt(r) == { p \in 1..Len(DomPages(r)) : DomPages(r)[p].role = "signature" }

\* C30 (template equivalence): for every document and signature flag the
\* two templates produce the same page sequence with the same item slices,
\* the same tax buckets, the totals block on the same page and the signature
\* page in the same position.
C30_TemplatesEquivalent ==
    (modern # None /\ variant # None) =>
        /\ modern[1].status = variant[1].status
        /\ modern[1].pages = variant[1].pages
        /\ modern[1].vatGroups = variant[1].vatGroups
        /\ modern[1].status = "ok" =>
              /\ Len(DomPages(modern[1])) = Len(DomPages(variant[1]))
              /\ ItemSlices(modern[1]) = ItemSlices(variant[1])
              /\ TotalsAt(DomPages(modern[1])) = TotalsAt(DomPages(variant[1]))
              /\ SignatureAt(modern[1]) = SignatureAt(variant[1])

\* both templates rendered on a several-page document with two tax rates
\* and the signature page
C30_Witness ==
    /\ modern # None /\ variant # None
    /\ modern[1].status = "ok"
    /\ N > ITEMS_PER_PAGE_LAST
    /\ includeSignature
    /\ Cardinality(DOMAIN modern[1].vatGroups) > 1
    /\ SignatureAt(variant[1]) = {Len(DomPages(variant[1]))}

\* C25 (client and date boxes on every item page): every item page, not
\* only the first, carries the header, the client box and the date box: in
\* both templates, and in the vector-draw exporter on every physical page
\* the table spans.
C25_BoxesOnEveryItemPage ==
    /\ \A r \in Renders :
          \A p \in 1..Len(ItemPages(r)) :
              ItemPages(r)[p].header /\ ItemPages(r)[p].clientBoxes
    /\ \A d \in Pdfs :
          \A p \in 1..TablePages(d) :
              d.pages[p].header /\ d.pages[p].clientBoxes

\* the label the quantity cell is said to end with
UnitLabel(unit) == IF unit = None \/ unit = Some(<<>>) THEN Unite ELSE unit[1]

\* C22 (quantity cell): in every backend (both templates and the vector-draw
\* exporter) the quantity cell is the quantity with three decimals followed
\* by the item's unit label, or by 'unité' when the unit is absent or empty,
\* never by an empty label.
C22_QuantityCell ==
    \A b \in Backends :
        cells[b] # None =>
            /\ cells[b][1].quantity =
                  toFixed(OrElse(line.item.quantity, 0), 3) \o <<" ">>
                  \o UnitLabel(line.item.unit)
            /\ cells[b][1].quantity[Len(cells[b][1].quantity)] # " "

\* a text made of an optional "-", one digit or more, a point, two digits
\* and ' MAD'
IsMoneyText(text) ==
    LET n == Len(text)
        first == IF text[1] = "-" THEN 2 ELSE 1
    IN  /\ n >= 8
        /\ SubSeq(text, n - 3, n) = MAD
        /\ text[n - 4] \in Digits /\ text[n - 5] \in Digits
        /\ text[n - 6] = "."
        /\ first <= n - 7
        /\ \A i \in first..(n - 7) : text[i] \in Digits

DigitValue(c) == CHOOSE d \in 0..9 : DigitChars[d + 1] = c

RECURSIVE DigitsValue(_)
DigitsValue(text) ==
    IF text = <<>> THEN 0
    ELSE 10 * DigitsValue(SubSeq(text, 1, Len(text) - 1)) + DigitValue(text[Len(text)])

\* the number of hundredths a money text reads as
ReadHundredths(text) ==
    LET n == Len(text)
        first == IF text[1] = "-" THEN 2 ELSE 1
        value == 100 * DigitsValue(SubSeq(text, first, n - 7))
                 + DigitsValue(SubSeq(text, n - 5, n - 4))
    IN  IF first = 2 THEN -value ELSE value

\* a number of thousandths rounded to hundredths
Hundredths(n) == IF n < 0 THEN -((-n + 5) \div 10) ELSE (n + 5) \div 10

ZeroMAD == <<"0", ".", "0", "0", " ", "M", "A", "D">>

C24_NoMutation ==
    [][/\ frame'.items = frame.items
       /\ heap'.arrays[frame.items] = heap.arrays[frame.items]
       /\ heap'.objects = heap.objects
       /\ heap'.scope = heap.scope]_vars

\* a composed render whose single page is the input array itself, the
\* aggregator having pushed onto the arrays of two buckets
C24_Witness ==
    /\ frame.stage = "composed"
    /\ frame.pages = <<frame.items>>
    /\ Len(heap.arrays[frame.items]) > 1
    /\ Cardinality(DOMAIN frame.vatGroups) > 1
    /\ \A r \in DOMAIN frame.vatGroups :
          /\ frame.vatGroups[r].products # frame.items
          /\ heap.arrays[frame.vatGroups[r].products] # <<>>

\* C28 (pro-template gating): while the licence stays non-pro no step makes
\* the selected template a pro template (template4 or template5): an
\* attempt to select one leaves the selected template unchanged and opens
\* the pro modal, and selecting a non-pro template always takes effect.
C28_ProGating ==
    [][/\ (~isPro /\ ~isPro' /\ selectedTemplate \notin PRO_TEMPLATES)
              => selectedTemplate' \notin PRO_TEMPLATES
       /\ \A tpl \in TemplateIds :
              trySelectTemplate(tpl) =>
                  IF tpl \in PRO_TEMPLATES /\ ~isPro
                  THEN selectedTemplate' = selectedTemplate /\ showProModal'
                  ELSE selectedTemplate' = tpl]_vars

\* a non-pro user, back on the first template after choosing it, with the
\* pro modal opened by an attempt
C28_Witness ==
    /\ ~isPro
    /\ showProModal
    /\ selectedTemplate = "template1"

\* the runs of the hidden-copy viewer that still read the export copy and
\* the pending action
HiddenReaders ==
    IF viewer = "hidden"
    THEN { j \in DOMAIN jobs : jobs[j].pc \in {"sleep", "images", "capture"} }
    ELSE {}

\* C26 (concurrent exports do not interfere): with a second export started
\* while a first is at an await, each export completes on its own rendered
\* content: in the hidden-copy viewer the export copy is not unmounted and
\* the pending action not cleared while a run still reads them; in the
\* vector-draw viewer the bands of every table page are drawn into the
\* document of the export that draws the table.
C26_ExportsDoNotInterfere ==
    /\ \A j \in HiddenReaders :
          /\ jobs[j].attached
          /\ renderExportCopy
          /\ pendingAction # None
    /\ \A job \in VectorJobs :
          job.pc \in {"table", "drawn", "final", "done"} =>
              \A p \in 1..Len(PdfTablePages(invoice, PdfVatGroups(invoice))) :
                  /\ p <= Len(job.pages)
                  /\ job.pages[p].header
                  /\ job.pages[p].footer # None

\* C27 (hidden-copy export lifecycle): once no run of the effect is in
\* flight the viewer is back in the idle state, pendingAction = null and
\* renderExportCopy = false, also when the export step failed: it is never
\* left with an action pending and the hidden copy mounted.
C27_ReturnsToIdle ==
    (viewer = "hidden" /\ HiddenReaders = {}) =>
        (pendingAction = None /\ ~renderExportCopy)

====
